---- MODULE Spec2Model ----
(***************************************************************************)
(* Model of the text-embedding upsert service (src/app/main.py).           *)
(*                                                                         *)
(* State: the three module-level service handles (embeddings, client,      *)
(* collection), the lifespan / initialize_services position, the event     *)
(* loop (which coroutine currently occupies it), the requests in flight,   *)
(* the remote collection and the wall clock in milliseconds.               *)
(*                                                                         *)
(* The request metadata (lines 208, 217-224) takes no part in the control  *)
(* flow of upsert_text: for JSON-decoded values neither metadata.update    *)
(* nor sanitize_metadata raises, so it is left out of the request state.   *)
(* sanitize_metadata itself is modelled as a function of its argument and   *)
(* exercised on its own under SanitizeSpec.                                *)
(***************************************************************************)
EXTENDS Integers, Sequences, FiniteSets

\* ---------------------------------------------------------------- bounds
NumRequests == 2
MaxClock == 1
MaxEntries == 2

\* ------------------------------------------------------- program constants
HTTP_200_OK == 200
HTTP_401_UNAUTHORIZED == 401
HTTP_422_UNPROCESSABLE_ENTITY == 422
HTTP_500_INTERNAL_SERVER_ERROR == 500
HTTP_502_BAD_GATEWAY == 502
HTTP_503_SERVICE_UNAVAILABLE == 503
min_length == 1
max_length == 50000
PeekLimit == 5

API_BEARER_TOKEN == "secret"

\* --------------------------------------------------------------- inputs
Requests == 1..NumRequests
Clock == 0..MaxClock
Whitespace == {" "}
Texts == { <<>>, <<" ">>, <<"a">>, <<" ", "a", " ">> }
Tokens == { "secret", "wrong" }
\* Optional[str]: <<>> is None, <<s>> is the string s
None == <<>>
SuppliedIds == { None, <<"">>, <<"doc-1">> }
Vectors == { "v1", "v2" }
Kinds == { "upsert", "health", "info" }

\* ------------------------------------------------------------ pure helpers
RECURSIVE LStrip(_)
LStrip(s) ==
    IF s = <<>> THEN <<>>
    ELSE IF Head(s) \in Whitespace THEN LStrip(Tail(s)) ELSE s

RECURSIVE RStrip(_)
RStrip(s) ==
    IF s = <<>> THEN <<>>
    ELSE IF s[Len(s)] \in Whitespace THEN RStrip(SubSeq(s, 1, Len(s) - 1)) ELSE s

\* str.strip()
Strip(s) ==
    RStrip(LStrip(s))

\* hashlib.md5(text.encode()).hexdigest(): a deterministic digest of the
\* text, distinct texts giving distinct digests within the inputs used here
Md5(text) ==
    <<"md5">> \o text

Min(a, b) ==
    IF a <= b THEN a ELSE b

\* a document id: either the caller's string or "<md5>_<ms>"
NoId ==
    [kind |-> "none", lit |-> "", hash |-> <<>>, ts |-> 0]

LiteralId(s) ==
    [kind |-> "literal", lit |-> s, hash |-> <<>>, ts |-> 0]

\* f"{text_hash}_{timestamp}"
GeneratedId(text, ms) ==
    [kind |-> "generated", lit |-> "", hash |-> Md5(text), ts |-> ms]

VARIABLES
    phase,        \* "created", "startup", "serving", "exited"
    initpc,       \* position inside initialize_services
    initCalls,    \* number of times initialize_services was entered
    embeddings,   \* module global: "None" or the OpenAIEmbeddings handle
    client,       \* module global: "None" or the chromadb.HttpClient handle
    collection,   \* module global: "None" or the Collection handle
    running,      \* request whose handler occupies the event loop, 0 if none
    req,          \* per request: inputs, handler position, locals, response
    store,        \* the remote collection: set of records, unique by id
    now,          \* wall clock, milliseconds
    md_pc,        \* sanitize_metadata: "idle", "called", "returned", "raised"
    md_in,        \* sanitize_metadata: its argument
    md_out        \* sanitize_metadata: its return value

vars == <<phase, initpc, initCalls, embeddings, client, collection,
          running, req, store, now, md_pc, md_in, md_out>>

sanitizer == <<md_pc, md_in, md_out>>

globals == <<embeddings, client, collection>>
lifecycle == <<phase, initpc, initCalls>>

\* a metadata argument or return value: None, or a dict as the sequence of
\* its (key, value) items in insertion order
NoMetadata ==
    [none |-> TRUE, items |-> <<>>]

NoServices ==
    [openai_embeddings |-> "", chromadb_client |-> "", chromadb_collection |-> ""]

IdleReq ==
    [kind |-> "none", pc |-> "idle", token |-> "", text |-> <<>>, id |-> None,
     seen |-> <<>>, vtext |-> <<>>, vector_id |-> NoId,
     embed_calls |-> 0, embed_result |-> "none", embedding_vector |-> "none",
     upsert_calls |-> 0, upsert_result |-> "none", sent |-> {},
     status |-> 0, resp_ids |-> <<>>, documents_upserted |-> 0,
     services |-> NoServices, overall |-> "",
     document_count |-> 0, sample_count |-> 0]

Init ==
    /\ phase = "created"
    /\ initpc = "not_started"
    /\ initCalls = 0
    /\ embeddings = "None"
    /\ client = "None"
    /\ collection = "None"
    /\ running = 0
    /\ req = [r \in Requests |-> IdleReq]
    /\ store = {}
    /\ now = 0
    /\ md_pc = "idle"
    /\ md_in = NoMetadata
    /\ md_out = NoMetadata

\* ------------------------------------------------ service lifecycle manager
\* Fault variant of StartupOutcome: a host that goes on to serve although the
\* startup failed.
StartupOutcome_ServeAnyway(ok) ==
    "serving"

\* What the ASGI host does with the outcome of the lifespan startup: the
\* exception of initialize_services leaves lifespan() before its yield, the
\* startup is reported failed and the host exits without serving.
StartupOutcome(ok) ==
    IF ok THEN "serving" ELSE "exited"

\* Fault variant of InitRaise: the exception is logged and swallowed, the
\* lifespan yields as if the startup had succeeded.
InitRaise_Swallowed ==
    /\ initpc' = "raised"
    /\ phase' = "serving"

\* initialize_services raised: except Exception -> raise RuntimeError
InitRaise ==
    /\ initpc' = "raised"
    /\ phase' = StartupOutcome(FALSE)

\* the host runs the lifespan protocol: lifespan() awaits initialize_services
LifespanStartup ==
    /\ phase = "created"
    /\ phase' = "startup"
    /\ initpc' = "embeddings"
    /\ initCalls' = initCalls + 1
    /\ UNCHANGED <<globals, running, req, store, now, sanitizer>>

\* the host dispatches requests without running the lifespan protocol
\* (lifespan is the only caller of initialize_services)
ServeWithoutLifespan ==
    /\ phase = "created"
    /\ phase' = "serving"
    /\ UNCHANGED <<initpc, initCalls, globals, running, req, store, now, sanitizer>>

\* embeddings = OpenAIEmbeddings(...)
ConstructEmbeddings ==
    /\ phase = "startup"
    /\ initpc = "embeddings"
    /\ \E ok \in BOOLEAN :
         IF ok
         THEN /\ embeddings' = "OpenAIEmbeddings"
              /\ initpc' = "client"
              /\ UNCHANGED phase
         ELSE /\ InitRaise
              /\ UNCHANGED embeddings
    /\ UNCHANGED <<initCalls, client, collection, running, req, store, now, sanitizer>>

\* client = chromadb.HttpClient(...)
ConstructClient ==
    /\ phase = "startup"
    /\ initpc = "client"
    /\ \E ok \in BOOLEAN :
         IF ok
         THEN /\ client' = "HttpClient"
              /\ initpc' = "get_collection"
              /\ UNCHANGED phase
         ELSE /\ InitRaise
              /\ UNCHANGED client
    /\ UNCHANGED <<initCalls, embeddings, collection, running, req, store, now, sanitizer>>

\* collection = client.get_collection(name=...)
GetCollection ==
    /\ phase = "startup"
    /\ initpc = "get_collection"
    /\ \E outcome \in {"ok", "NotFoundError", "error"} :
         CASE outcome = "ok" ->
                /\ collection' = "Collection"
                /\ initpc' = "done"
                /\ phase' = StartupOutcome(TRUE)
           [] outcome = "NotFoundError" ->
                /\ initpc' = "create_collection"
                /\ UNCHANGED <<collection, phase>>
           [] outcome = "error" ->
                /\ InitRaise
                /\ UNCHANGED collection
    /\ UNCHANGED <<initCalls, embeddings, client, running, req, store, now, sanitizer>>

\* except NotFoundError: collection = client.create_collection(name=...)
CreateCollection ==
    /\ phase = "startup"
    /\ initpc = "create_collection"
    /\ \E ok \in BOOLEAN :
         IF ok
         THEN /\ collection' = "Collection"
              /\ initpc' = "done"
              /\ phase' = StartupOutcome(TRUE)
         ELSE /\ InitRaise
              /\ UNCHANGED collection
    /\ UNCHANGED <<initCalls, embeddings, client, running, req, store, now, sanitizer>>

\* time.time() moves on
Tick ==
    /\ now < MaxClock
    /\ now' = now + 1
    /\ UNCHANGED <<lifecycle, globals, running, req, store, sanitizer>>

\* --------------------------------------------------------- request pipeline
\* verify_token: credentials.credentials != API_BEARER_TOKEN -> 401
verify_token(tok) ==
    tok = API_BEARER_TOKEN

\* Field(..., min_length=1, max_length=50000), checked on the raw value
FieldConstraints(v) ==
    /\ Len(v) >= min_length
    /\ Len(v) <= max_length

\* Fault variant of TextRejected: only "if not v", the whitespace test dropped.
TextRejected_EmptyOnly(v) ==
    Len(v) = 0

\* UpsertTextRequest.validate_text: "if not v or not v.strip(): raise"
TextRejected(v) ==
    \/ Len(v) = 0
    \/ Len(Strip(v)) = 0

\* Fault variant of validate_text: "return v", the text kept untrimmed.
validate_text_Untrimmed(v) ==
    v

\* UpsertTextRequest.validate_text: "return v.strip()"
validate_text(v) ==
    Strip(v)

\* the request body fails validation: the handler body is never entered
BodyInvalid(v) ==
    \/ ~FieldConstraints(v)
    \/ TextRejected(v)

\* truthiness of a module global
Truthy(h) ==
    h # "None"

\* Fault variant of ServicesReady: the readiness check left out.
ServicesReady_Unchecked(c, col, e) ==
    TRUE

\* all([client, collection, embeddings])
ServicesReady(c, col, e) ==
    Truthy(c) /\ Truthy(col) /\ Truthy(e)

\* all([client, collection]) of get_collection_info
StoreReady(c, col) ==
    Truthy(c) /\ Truthy(col)

\* "if not vector_id": None and the empty string both count as not provided
IdProvided(id) ==
    /\ id # None
    /\ id[1] # ""

\* lines 209-215: the caller's id, else f"{md5(text)}_{int(time.time()*1000)}"
ResolveId(id, text, ms) ==
    IF IdProvided(id) THEN LiteralId(id[1]) ELSE GeneratedId(text, ms)

\* the single record handed to collection.upsert (ids, embeddings, documents)
MakeRecord(vid, vec, text) ==
    [id |-> vid, embedding |-> vec, document |-> text]

\* collection.upsert on the store's side: insert or overwrite by id
StoreUpsert(st, recs) ==
    { s \in st : \A n \in recs : s.id # n.id } \cup recs

\* a handler finished with an HTTP status
Respond(rq, code) ==
    [rq EXCEPT !.pc = "done", !.status = code]

\* the handles a handler found in the module globals when it read them
Observed ==
    <<embeddings, client, collection>>

\* upsert_text up to the point where embeddings.embed_query is called
\* (dependency, body validation, lines 199-228)
UpsertEntry(rq, ms) ==
    IF ~verify_token(rq.token) THEN Respond(rq, HTTP_401_UNAUTHORIZED)
    ELSE IF BodyInvalid(rq.text) THEN Respond(rq, HTTP_422_UNPROCESSABLE_ENTITY)
    ELSE LET text == validate_text(rq.text)
             r1 == [rq EXCEPT !.seen = Observed, !.vtext = text]
         IN  IF ~ServicesReady(client, collection, embeddings)
             THEN Respond(r1, HTTP_503_SERVICE_UNAVAILABLE)
             ELSE [r1 EXCEPT !.vector_id = ResolveId(rq.id, text, ms),
                             !.embed_calls = @ + 1,
                             !.pc = "embedding"]

\* Fault variant of EmbedReturned: the embedding exception is logged but not
\* re-raised, the pipeline goes on to the upsert with no vector.
EmbedReturned_Swallowed(rq, outcome, vec) ==
    [rq EXCEPT !.embed_result = outcome,
               !.embedding_vector = IF outcome = "raised" THEN "none" ELSE vec,
               !.sent = {MakeRecord(rq.vector_id,
                                    IF outcome = "raised" THEN "none" ELSE vec,
                                    rq.vtext)},
               !.upsert_calls = @ + 1,
               !.pc = "upserting"]

\* embeddings.embed_query returned or raised (lines 227-248): on an
\* exception 502, else collection.upsert is called with the one record
EmbedReturned(rq, outcome, vec) ==
    IF outcome = "raised"
    THEN Respond([rq EXCEPT !.embed_result = "raised"], HTTP_502_BAD_GATEWAY)
    ELSE [rq EXCEPT !.embed_result = "ok",
                    !.embedding_vector = vec,
                    !.sent = {MakeRecord(rq.vector_id, vec, rq.vtext)},
                    !.upsert_calls = @ + 1,
                    !.pc = "upserting"]

\* the status upsert_text maps an outcome of collection.upsert to:
\* except ChromaError -> 502, except Exception -> 500, else the response
UpsertStatus(outcome) ==
    CASE outcome = "ok" -> HTTP_200_OK
      [] outcome = "ChromaError" -> HTTP_502_BAD_GATEWAY
      [] OTHER -> HTTP_500_INTERNAL_SERVER_ERROR

\* collection.upsert returned or raised (lines 249-283)
UpsertReturned(rq, outcome) ==
    LET r1 == Respond([rq EXCEPT !.upsert_result = outcome], UpsertStatus(outcome))
    IN  IF outcome = "ok"
        THEN [r1 EXCEPT !.documents_upserted = 1, !.resp_ids = <<rq.vector_id>>]
        ELSE r1

\* Fault variant of Health: the condition inverted.
Health_Inverted(h) ==
    IF Truthy(h) THEN "unhealthy" ELSE "healthy"

\* "healthy" if <handle> else "unhealthy"
Health(h) ==
    IF Truthy(h) THEN "healthy" ELSE "unhealthy"

\* health_check: services_status
ServicesStatus(e, c, col) ==
    [openai_embeddings |-> Health(e),
     chromadb_client |-> Health(c),
     chromadb_collection |-> Health(col)]

\* health_check: overall_status
OverallStatus(sv) ==
    IF /\ sv.openai_embeddings = "healthy"
       /\ sv.chromadb_client = "healthy"
       /\ sv.chromadb_collection = "healthy"
    THEN "healthy" ELSE "unhealthy"

\* health_check, the whole handler (no dependency, no external call)
HealthCheck(rq) ==
    LET sv == ServicesStatus(embeddings, client, collection)
    IN  Respond([rq EXCEPT !.seen = Observed,
                           !.services = sv,
                           !.overall = OverallStatus(sv)], HTTP_200_OK)

\* get_collection_info up to the point where collection.count is called
InfoEntry(rq) ==
    IF ~verify_token(rq.token) THEN Respond(rq, HTTP_401_UNAUTHORIZED)
    ELSE LET r1 == [rq EXCEPT !.seen = Observed]
         IN  IF ~StoreReady(client, collection)
             THEN Respond(r1, HTTP_503_SERVICE_UNAVAILABLE)
             ELSE [r1 EXCEPT !.pc = "counting"]

\* collection.count and collection.peek(limit=5) returned or raised: a
\* failed count is 502, a failed peek only leaves the samples empty
InfoReturned(rq, countOk, peekOk) ==
    IF ~countOk THEN Respond(rq, HTTP_502_BAD_GATEWAY)
    ELSE Respond([rq EXCEPT !.document_count = Cardinality(store),
                            !.sample_count =
                                IF peekOk THEN Min(PeekLimit, Cardinality(store))
                                ELSE 0], HTTP_200_OK)

\* the event loop: a handler is a coroutine that never awaits (embed_query,
\* collection.upsert, count and peek are synchronous calls), so it occupies
\* the loop from its first line to its return
LoopFree ==
    running = 0

\* a request reaches the listening server; requests are numbered in the
\* order of their arrival
Arrive(r) ==
    /\ phase = "serving"
    /\ req[r].pc = "idle"
    /\ \A q \in Requests : q < r => req[q].pc # "idle"
    /\ \E k \in Kinds, tok \in Tokens, t \in Texts, i \in SuppliedIds :
         /\ k # "upsert" => (t = <<>> /\ i = None)
         /\ k = "health" => tok = "secret"
         \* a wrong token is rejected before the body is looked at: one empty
         \* and one non-empty body stand for all of them
         /\ tok # API_BEARER_TOKEN => (t \in {<<>>, <<"a">>} /\ i = None)
         \* the empty-string id is tried with one text
         /\ i = <<"">> => t = <<"a">>
         /\ req' = [req EXCEPT ![r] = [IdleReq EXCEPT !.kind = k, !.pc = "pending",
                                                     !.token = tok, !.text = t,
                                                     !.id = i]]
    /\ UNCHANGED <<lifecycle, globals, running, store, now, sanitizer>>

\* the event loop starts the handler of a pending request
Dispatch(r) ==
    /\ phase = "serving"
    /\ LoopFree
    /\ req[r].pc = "pending"
    /\ LET nxt == CASE req[r].kind = "upsert" -> UpsertEntry(req[r], now)
                    [] req[r].kind = "health" -> HealthCheck(req[r])
                    [] OTHER -> InfoEntry(req[r])
       IN  /\ req' = [req EXCEPT ![r] = nxt]
           /\ running' = IF nxt.pc = "done" THEN 0 ELSE r
    /\ UNCHANGED <<lifecycle, globals, store, now, sanitizer>>

\* embeddings.embed_query comes back
EmbedReturn(r) ==
    /\ req[r].pc = "embedding"
    /\ \E outcome \in {"ok", "raised"}, vec \in Vectors :
         /\ outcome = "raised" => vec = "v1"
         /\ LET nxt == EmbedReturned(req[r], outcome, vec)
            IN  /\ req' = [req EXCEPT ![r] = nxt]
                /\ running' = IF nxt.pc = "done" THEN 0 ELSE running
    /\ UNCHANGED <<lifecycle, globals, store, now, sanitizer>>

\* collection.upsert comes back
UpsertReturn(r) ==
    /\ req[r].pc = "upserting"
    /\ \E outcome \in {"ok", "ChromaError", "Exception"} :
         /\ req' = [req EXCEPT ![r] = UpsertReturned(req[r], outcome)]
         /\ store' = IF outcome = "ok" THEN StoreUpsert(store, req[r].sent) ELSE store
    /\ running' = 0
    /\ UNCHANGED <<lifecycle, globals, now, sanitizer>>

\* collection.count / collection.peek come back
InfoReturn(r) ==
    /\ req[r].pc = "counting"
    /\ \E countOk \in BOOLEAN, peekOk \in BOOLEAN :
         /\ ~countOk => peekOk
         /\ req' = [req EXCEPT ![r] = InfoReturned(req[r], countOk, peekOk)]
    /\ running' = 0
    /\ UNCHANGED <<lifecycle, globals, store, now, sanitizer>>

Next ==
    \/ LifespanStartup
    \/ ServeWithoutLifespan
    \/ ConstructEmbeddings
    \/ ConstructClient
    \/ GetCollection
    \/ CreateCollection
    \/ Tick
    \/ \E r \in Requests : Arrive(r)
    \/ \E r \in Requests : Dispatch(r)
    \/ \E r \in Requests : EmbedReturn(r)
    \/ \E r \in Requests : UpsertReturn(r)
    \/ \E r \in Requests : InfoReturn(r)

Spec ==
    Init /\ [][Next]_vars

TypeOK ==
    /\ phase \in {"created", "startup", "serving", "exited"}
    /\ running \in {0} \cup Requests
    /\ now \in Clock
    /\ \A r \in Requests : req[r].pc \in {"idle", "pending", "embedding", "upserting", "counting", "done"}

\* ------------------------------------------------------- metadata sanitizer
\* A value is [t |-> type(value).__name__, v |-> its content as tokens]. The
\* tokens of a list, dict or other object name its elements: "x" and "1" are
\* a str and an int, "set" is a set (str and repr work, json.dumps does not
\* serialize it), "nostr" an object whose __str__ raises, "norepr" an object
\* whose __str__ and __repr__ both raise.
PrimitiveTypes ==
    {"NoneType", "str", "int", "float", "bool"}

MetadataKeys ==
    {"source", "tags", "_metadata_conversions"}

MetadataValues ==
    { [t |-> "NoneType", v |-> <<>>],
      [t |-> "str", v |-> <<"x">>],
      [t |-> "int", v |-> <<"1">>],
      [t |-> "float", v |-> <<"1.5">>],
      [t |-> "bool", v |-> <<"True">>],
      [t |-> "list", v |-> <<"x", "1">>],
      [t |-> "list", v |-> <<"nostr">>],
      [t |-> "list", v |-> <<"norepr">>],
      [t |-> "dict", v |-> <<"x", "1">>],
      [t |-> "dict", v |-> <<"x", "set">>],
      [t |-> "dict", v |-> <<"x", "norepr">>],
      [t |-> "tuple", v |-> <<"x", "1">>],
      [t |-> "object", v |-> <<"nostr">>] }

\* the dicts of at most MaxEntries items, keys distinct
MetadataDicts ==
    { d \in UNION { [1..n -> MetadataKeys \X MetadataValues] : n \in 0..MaxEntries } :
        \A i, j \in 1..Len(d) : i # j => d[i][1] # d[j][1] }

\* the arguments sanitize_metadata is called with: None or a dict
MetadataInputs ==
    {NoMetadata} \cup { [none |-> FALSE, items |-> d] : d \in MetadataDicts }

\* str(item) raises
StrRaises(tok) ==
    tok \in {"nostr", "norepr"}

\* repr(item) raises
ReprRaises(tok) ==
    tok = "norepr"

\* json.dumps raises on the element
JsonRaises(tok) ==
    tok \in {"set", "nostr", "norepr"}

\* sep.join(parts)
RECURSIVE JoinTokens(_, _)
JoinTokens(parts, sep) ==
    IF parts = <<>> THEN <<>>
    ELSE IF Len(parts) = 1 THEN parts[1]
    ELSE parts[1] \o <<sep>> \o JoinTokens(Tail(parts), sep)

StrValue(tokens) ==
    [t |-> "str", v |-> tokens]

\* "value is None or isinstance(value, (str, int, float, bool))"
IsPrimitive(val) ==
    val.t \in PrimitiveTypes

\* str(value) of a list or dict: the repr of its elements, which may raise
ReprConversion(val, what) ==
    IF \E i \in 1..Len(val.v) : ReprRaises(val.v[i])
    THEN [raised |-> TRUE, value |-> val, note |-> ""]
    ELSE [raised |-> FALSE, value |-> StrValue(<<"repr">> \o val.v),
          note |-> what]

\* lines 80-87: ", ".join(str(item) for item in value), on an exception
\* str(value)
ListConversion(val) ==
    IF \E i \in 1..Len(val.v) : StrRaises(val.v[i])
    THEN ReprConversion(val, "list -> string representation")
    ELSE [raised |-> FALSE,
          value |-> StrValue(JoinTokens([i \in 1..Len(val.v) |-> <<val.v[i]>>], ", ")),
          note |-> "list -> comma-separated string"]

\* lines 88-96: json.dumps(value), on an exception str(value)
DictConversion(val) ==
    IF \E i \in 1..Len(val.v) : JsonRaises(val.v[i])
    THEN ReprConversion(val, "dict -> string representation")
    ELSE [raised |-> FALSE, value |-> StrValue(<<"json">> \o val.v),
          note |-> "dict -> JSON string"]

\* lines 97-100: str(value), outside any try
OtherConversion(val) ==
    IF \E i \in 1..Len(val.v) : StrRaises(val.v[i])
    THEN [raised |-> TRUE, value |-> val, note |-> ""]
    ELSE [raised |-> FALSE, value |-> StrValue(<<"str">> \o val.v),
          note |-> "type -> string"]

\* the body of the loop over metadata.items() for one value
Conversion(val) ==
    CASE IsPrimitive(val) -> [raised |-> FALSE, value |-> val, note |-> ""]
      [] val.t = "list" -> ListConversion(val)
      [] val.t = "dict" -> DictConversion(val)
      [] OTHER -> OtherConversion(val)

\* d[key] = val on a dict kept as its items in insertion order
SetItem(d, key, val) ==
    IF \E i \in 1..Len(d) : d[i][1] = key
    THEN [i \in 1..Len(d) |-> IF d[i][1] = key THEN <<key, val>> ELSE d[i]]
    ELSE Append(d, <<key, val>>)

\* lines 73-100: the loop, from item i on
RECURSIVE SanitizeLoop(_, _, _, _)
SanitizeLoop(items, i, sanitized, conversions) ==
    IF i > Len(items)
    THEN [raised |-> FALSE, sanitized |-> sanitized, conversions |-> conversions]
    ELSE LET key == items[i][1]
             c == Conversion(items[i][2])
         IN  IF c.raised
             THEN [raised |-> TRUE, sanitized |-> sanitized, conversions |-> conversions]
             ELSE SanitizeLoop(items, i + 1, SetItem(sanitized, key, c.value),
                               IF c.note = "" THEN conversions
                               ELSE Append(conversions, <<"'", key, "': ", c.note>>))

\* f"Applied conversions: {'; '.join(conversions)}"
ConversionsNote(conversions) ==
    StrValue(<<"Applied conversions: ">> \o JoinTokens(conversions, "; "))

\* sanitize_metadata: [raised, ret]
sanitize_metadata(metadata) ==
    IF metadata.none \/ metadata.items = <<>>
    THEN [raised |-> FALSE, ret |-> metadata]
    ELSE LET r == SanitizeLoop(metadata.items, 1, <<>>, <<>>)
         IN  IF r.raised THEN [raised |-> TRUE, ret |-> NoMetadata]
             ELSE IF r.conversions # <<>>
             THEN [raised |-> FALSE,
                   ret |-> [none |-> FALSE,
                            items |-> SetItem(r.sanitized, "_metadata_conversions",
                                              ConversionsNote(r.conversions))]]
             ELSE [raised |-> FALSE, ret |-> [none |-> FALSE, items |-> r.sanitized]]

\* sanitize_metadata is about to be called with some argument
SanitizeInit ==
    /\ phase = "created"
    /\ initpc = "not_started"
    /\ initCalls = 0
    /\ embeddings = "None"
    /\ client = "None"
    /\ collection = "None"
    /\ running = 0
    /\ req = [r \in Requests |-> IdleReq]
    /\ store = {}
    /\ now = 0
    /\ md_pc = "called"
    /\ md_in \in MetadataInputs
    /\ md_out = NoMetadata

\* the call runs to its return or to the exception that leaves it
Sanitize ==
    /\ md_pc = "called"
    /\ LET res == sanitize_metadata(md_in)
       IN  /\ md_pc' = IF res.raised THEN "raised" ELSE "returned"
           /\ md_out' = res.ret
    /\ UNCHANGED <<lifecycle, globals, running, req, store, now, md_in>>

SanitizeNext ==
    Sanitize

SanitizeSpec ==
    SanitizeInit /\ [][SanitizeNext]_vars


\* ------------------------------------------------------------------ claims
AllHandles ==
    <<"OpenAIEmbeddings", "HttpClient", "Collection">>

NoHandles ==
    <<"None", "None", "None">>

Done(r) ==
    req[r].pc = "done"

UpsertReq(r) ==
    req[r].kind = "upsert"

\* C1: when embeddings.embed_query raises in an upsert_text request, that
\* request ends with 502, collection.upsert is never called by it, it hands
\* no record to the store, and every record in the store comes from a request
\* whose embedding call succeeded.
C1_EmbedFailureWritesNothing ==
    /\ \A r \in Requests :
         req[r].embed_result = "raised" =>
            /\ Done(r)
            /\ req[r].status = HTTP_502_BAD_GATEWAY
            /\ req[r].upsert_calls = 0
            /\ req[r].sent = {}
    /\ \A s \in store :
         \E r \in Requests :
            /\ req[r].embed_result = "ok"
            /\ req[r].upsert_result = "ok"
            /\ s \in req[r].sent

C1_Witness ==
    \E r \in Requests :
        /\ UpsertReq(r)
        /\ req[r].embed_calls = 1
        /\ req[r].embed_result = "raised"
        /\ req[r].status = HTTP_502_BAD_GATEWAY
        /\ store # {}

\* C2: an upsert request with a valid token whose text is empty or only
\* whitespace is rejected by the input validation (422), it never calls the
\* embedding gateway or the store gateway and hands no record to the store;
\* the gateways are not called for such a text whatever the token is.
C2_BlankTextRejectedBeforeGateways ==
    \A r \in Requests :
        (UpsertReq(r) /\ Strip(req[r].text) = <<>>) =>
            /\ req[r].pc \in {"pending", "done"}
            /\ req[r].embed_calls = 0
            /\ req[r].upsert_calls = 0
            /\ req[r].sent = {}
            /\ \A s \in store : s.document # <<>>
            /\ (Done(r) /\ verify_token(req[r].token)) =>
                   req[r].status = HTTP_422_UNPROCESSABLE_ENTITY

C2_Witness ==
    \E r \in Requests :
        /\ UpsertReq(r)
        /\ req[r].text = <<" ">>
        /\ verify_token(req[r].token)
        /\ Done(r)
        /\ req[r].status = HTTP_422_UNPROCESSABLE_ENTITY
        /\ Observed = AllHandles

\* the service state is not fully initialized: some handle is absent
NotReady ==
    Observed # AllHandles

\* C3 (as claimed): an authenticated upsert request handled while the
\* service state is not fully initialized is answered 503 whatever its text
\* is, the empty and the whitespace-only text included.
C3_ReadinessWinsOverValidation ==
    \A r \in Requests :
        (UpsertReq(r) /\ verify_token(req[r].token) /\ Done(r) /\ NotReady) =>
            req[r].status = HTTP_503_SERVICE_UNAVAILABLE

\* C3 (amended): the body validation runs before the handler body, so an
\* authenticated upsert request handled while the service state is not fully
\* initialized is answered 422 when its text fails the validation (empty,
\* whitespace-only or out of the length limits) and 503 otherwise; in both
\* cases no gateway is called.
C3_ValidationThenReadiness ==
    \A r \in Requests :
        (UpsertReq(r) /\ verify_token(req[r].token) /\ NotReady) =>
            /\ req[r].pc \in {"pending", "done"}
            /\ req[r].embed_calls = 0
            /\ req[r].upsert_calls = 0
            /\ Done(r) =>
                 req[r].status = IF BodyInvalid(req[r].text)
                                 THEN HTTP_422_UNPROCESSABLE_ENTITY
                                 ELSE HTTP_503_SERVICE_UNAVAILABLE

C3_Witness ==
    /\ NotReady
    /\ \E r1, r2 \in Requests :
         /\ UpsertReq(r1) /\ verify_token(req[r1].token)
         /\ req[r1].text = <<" ", "a", " ">>
         /\ req[r1].status = HTTP_503_SERVICE_UNAVAILABLE
         /\ UpsertReq(r2) /\ verify_token(req[r2].token)
         /\ req[r2].text = <<" ">>
         /\ req[r2].status = HTTP_422_UNPROCESSABLE_ENTITY

\* C4 (as claimed): every failure of collection.upsert, whatever its kind, is
\* answered 502 and never 500 or success.
C4_StoreFailureIsBadGateway ==
    \A r \in Requests :
        (Done(r) /\ req[r].upsert_result \in {"ChromaError", "Exception"}) =>
            req[r].status = HTTP_502_BAD_GATEWAY

\* C5: whenever a request handler reads the three service handles it finds
\* either all of them absent or all of them present, and in every state in
\* which the server accepts requests the handles are in one of these two
\* states, also when initialize_services has failed part-way through.
C5_StateNeverPartiallyVisible ==
    /\ \A r \in Requests :
         req[r].seen # <<>> => req[r].seen \in {NoHandles, AllHandles}
    /\ phase = "serving" => Observed \in {NoHandles, AllHandles}

C5_Witness ==
    /\ initpc = "done"
    /\ \E r1, r2 \in Requests :
         /\ req[r1].kind = "health" /\ req[r1].seen = AllHandles
         /\ req[r2].kind = "upsert" /\ req[r2].seen = AllHandles

\* C6 (as claimed): while one upsert request waits for its embedding call or
\* its store upsert call, any other request that has arrived can be taken up
\* by the server and make progress.
C6_WaitingRequestBlocksNobody ==
    \A r1, r2 \in Requests :
        (/\ r1 # r2
         /\ req[r1].pc \in {"embedding", "upserting"}
         /\ req[r2].pc = "pending") => ENABLED Dispatch(r2)

Unprovided(r) ==
    ~IdProvided(req[r].id)

\* C7 (as claimed): two successful upsert requests without a caller id and
\* with identical text get two different generated ids and leave two
\* distinct records in the collection.
C7_GeneratedIdsDistinct ==
    \A r1, r2 \in Requests :
        (/\ r1 # r2
         /\ UpsertReq(r1) /\ UpsertReq(r2)
         /\ req[r1].status = HTTP_200_OK /\ req[r2].status = HTTP_200_OK
         /\ Unprovided(r1) /\ Unprovided(r2)
         /\ req[r1].vtext = req[r2].vtext) =>
            /\ req[r1].resp_ids # req[r2].resp_ids
            /\ \E s1, s2 \in store :
                 /\ s1 # s2
                 /\ s1.id = req[r1].vector_id
                 /\ s2.id = req[r2].vector_id

\* C8: an upsert request answered 200 with documents_upserted 1 called the
\* embedding gateway exactly once, successfully, and the store upsert exactly
\* once, successfully; that upsert carried exactly one record, with the
\* vector the embedding call returned, the trimmed text as document and the
\* resolved id, which is the one id of the response and is the caller's id
\* verbatim when the caller provided one (None and the empty string count as
\* not provided); no upsert is ever called before the embedding succeeded.
C8_SuccessMeansOneEmbedOneUpsert ==
    \A r \in Requests :
        /\ req[r].upsert_calls > 0 =>
              (req[r].embed_result = "ok" /\ req[r].embed_calls = 1)
        /\ (UpsertReq(r) /\ Done(r) /\ req[r].status = HTTP_200_OK) =>
              /\ req[r].documents_upserted = 1
              /\ req[r].embed_calls = 1
              /\ req[r].upsert_calls = 1
              /\ req[r].upsert_result = "ok"
              /\ req[r].embedding_vector \in Vectors
              /\ Len(req[r].resp_ids) = 1
              /\ req[r].sent = {[id |-> req[r].resp_ids[1],
                                 embedding |-> req[r].embedding_vector,
                                 document |-> Strip(req[r].text)]}
              /\ IdProvided(req[r].id) =>
                    req[r].resp_ids[1] = LiteralId(req[r].id[1])
              /\ ~IdProvided(req[r].id) =>
                    /\ req[r].resp_ids[1].kind = "generated"
                    /\ req[r].resp_ids[1].hash = Md5(Strip(req[r].text))

C8_Witness ==
    \E r1, r2 \in Requests :
        /\ UpsertReq(r1) /\ req[r1].status = HTTP_200_OK
        /\ req[r1].text = <<" ", "a", " ">>
        /\ req[r1].id = <<"doc-1">>
        /\ req[r1].embedding_vector = "v2"
        /\ UpsertReq(r2) /\ req[r2].status = HTTP_200_OK
        /\ req[r2].id = <<"">>
        /\ req[r2].resp_ids[1].kind = "generated"

HealthReq(r) ==
    req[r].kind = "health" /\ Done(r)

AllReported(r, h) ==
    /\ req[r].services.openai_embeddings = h
    /\ req[r].services.chromadb_client = h
    /\ req[r].services.chromadb_collection = h

\* C9: a health check answered before any initialization reports the three
\* components unhealthy, one answered after a successful initialization
\* reports the three healthy, every component is reported healthy exactly
\* when its handle is present, and the aggregate status is healthy exactly
\* when the three components are reported healthy.
C9_HealthReflectsLifecycle ==
    \A r \in Requests :
        HealthReq(r) =>
            /\ req[r].status = HTTP_200_OK
            /\ initpc = "not_started" => AllReported(r, "unhealthy")
            /\ initpc = "done" => AllReported(r, "healthy")
            /\ req[r].services.openai_embeddings = "healthy" <=> embeddings # "None"
            /\ req[r].services.chromadb_client = "healthy" <=> client # "None"
            /\ req[r].services.chromadb_collection = "healthy" <=> collection # "None"
            /\ req[r].services.openai_embeddings \in {"healthy", "unhealthy"}
            /\ req[r].services.chromadb_client \in {"healthy", "unhealthy"}
            /\ req[r].services.chromadb_collection \in {"healthy", "unhealthy"}
            /\ req[r].overall \in {"healthy", "unhealthy"}
            /\ req[r].overall = "healthy" <=> AllReported(r, "healthy")

C9_Witness ==
    \E r \in Requests :
        /\ HealthReq(r)
        /\ initpc = "done"
        /\ req[r].overall = "healthy"
        /\ AllReported(r, "healthy")

\* C10: once a step of initialize_services has failed the process is not
\* serving: no request has arrived or been handled, in that state or any
\* later one, and initialize_services is entered at most once in the life of
\* the process; requests are only ever handled after a successful
\* initialization or with no initialization attempted at all.
C10_FailedStartupNeverServes ==
    /\ initCalls <= 1
    /\ initpc = "raised" =>
         /\ phase = "exited"
         /\ initCalls = 1
         /\ running = 0
         /\ \A r \in Requests : req[r].pc = "idle"
    /\ (\E r \in Requests : req[r].pc # "idle") =>
         initpc \in {"done", "not_started"}

C10_Witness ==
    /\ initpc = "raised"
    /\ embeddings = "OpenAIEmbeddings"
    /\ client = "HttpClient"
    /\ collection = "None"
    /\ now = MaxClock

Finished ==
    md_pc \in {"returned", "raised"}

OnlyPrimitives(items) ==
    \A i \in 1..Len(items) : items[i][2].t \in PrimitiveTypes

HasKey(items, key) ==
    \E i \in 1..Len(items) : items[i][1] = key

\* C11 (as claimed): sanitize_metadata never raises and returns, for every
\* argument (a dict, the empty dict, or None taken as the empty dict), a dict
\* whose values are all of type str, int, float, bool or None, the value of
\* the added _metadata_conversions key included; an argument whose values
\* are all of these types already is returned equal to itself, with no
\* _metadata_conversions key added.
C11_SanitizeNeverRaisesAndConforms ==
    Finished =>
        /\ md_pc = "returned"
        /\ ~md_out.none
        /\ OnlyPrimitives(md_out.items)
        /\ OnlyPrimitives(md_in.items) =>
              /\ md_out.items = md_in.items
              /\ HasKey(md_out.items, "_metadata_conversions")
                    => HasKey(md_in.items, "_metadata_conversions")

====
